---- MODULE Spec2Model ----
(***************************************************************************)
(* Model of backend/main.py: the /pipelines/parse handler parse_pipeline   *)
(* and its helper is_dag (Kahn's algorithm).  Every call owns its request  *)
(* and its locals; the variables are functions over the calls in flight.   *)
(***************************************************************************)
EXTENDS Integers, Sequences, FiniteSets, TLC

\* nodes, edges    request.nodes, request.edges of each call
\* pc              the call's position in parse_pipeline / is_dag
\* idx             position of "for edge in ..." (reference check, then build)
\* graph           is_dag's adjacency dict
\* in_degree       is_dag's in-degree dict; in_order is its key insertion order
\* queue           is_dag's worklist
\* visited_count   is_dag's counter
\* popped          history: the ids queue.pop(0) has returned so far
\* is_dag_result   parse_pipeline's local of that name
\* outcome         what the call returned or raised
VARIABLES nodes, edges, pc, idx, graph, in_degree, in_order, queue,
          visited_count, popped, is_dag_result, outcome

vars == <<nodes, edges, pc, idx, graph, in_degree, in_order, queue,
          visited_count, popped, is_dag_result, outcome>>

\* Bounds of the model.
MaxNodes == 3
MaxEdges == 2
PairMaxNodes == 3
PairMaxEdges == 2

Calls == {1, 2}
Ids == {"A", "B", "C"}
PairIds == {"A", "B"}

\* class Node / class Edge: the fields the handler reads.
Node(S) == [id : S]
Edge(S) == [source : S, target : S]

SeqsUpTo(S, n) == UNION {[1..m -> S] : m \in 0..n}

Range(s) == {s[k] : k \in 1..Len(s)}

EmptyDict == [x \in {} |-> 0]

\* d[k] = v on a Python dict.
DictSet(d, k, v) == [x \in DOMAIN d \cup {k} |-> IF x = k THEN v ELSE d[x]]

\* d.get(k, default)
DictGet(d, k, default) == IF k \in DOMAIN d THEN d[k] ELSE default

\* Insertion order of a dict's keys: assigning an existing key keeps its place.
KeyInsert(order, k) == IF k \in Range(order) THEN order ELSE Append(order, k)

\* node_ids = {node.id for node in request.nodes}
node_ids(c) == {nodes[c][k].id : k \in 1..Len(nodes[c])}

HTTPException(code, text) ==
    [kind |-> "HTTPException", status_code |-> code, detail |-> text]

SourceDetail(e) == "Edge references non-existent source node: " \o e.source
TargetDetail(e) == "Edge references non-existent target node: " \o e.target

\* Handler with the "except HTTPException: raise" clause missing.
HandlerWrapAll(exc) ==
    HTTPException(500, "Error parsing pipeline: " \o exc.detail)

\* The except clauses of parse_pipeline: an HTTPException is re-raised as it
\* is, any other exception is wrapped into a 500.
Handler(exc) ==
    IF exc.kind = "HTTPException"
    THEN exc
    ELSE HTTPException(500, "Error parsing pipeline: " \o exc.detail)

\* node.dict() / edge.dict(): a field by field copy of the model.
NodeDict(n) == [id |-> n.id]
EdgeDict(e) == [source |-> e.source, target |-> e.target]

EchoNodes(ns) == [k \in 1..Len(ns) |-> NodeDict(ns[k])]
EchoEdges(es) == [k \in 1..Len(es) |-> EdgeDict(es[k])]

\* Response that counts the distinct identifiers (len(node_ids)) as nodes_count.
ResponseDistinctCount(ns, es, dag) ==
    [kind |-> "response",
     body |-> [status |-> "parsed",
               nodes_count |-> Cardinality({ns[k].id : k \in 1..Len(ns)}),
               edges_count |-> Len(es),
               is_dag |-> dag,
               nodes |-> EchoNodes(ns),
               edges |-> EchoEdges(es)]]

Response(ns, es, dag) ==
    [kind |-> "response",
     body |-> [status |-> "parsed",
               nodes_count |-> Len(ns),
               edges_count |-> Len(es),
               is_dag |-> dag,
               nodes |-> EchoNodes(ns),
               edges |-> EchoEdges(es)]]

\* is_dag with only the "len(nodes) == 0" early return.
TrivialNodesOnly(ns, es) == Len(ns) = 0

\* The two early returns of is_dag: no nodes, or no edges.
Trivial(ns, es) == Len(ns) = 0 \/ Len(es) = 0

Pending == [kind |-> "pending"]

----------------------------------------------------------------------------
\* for node in nodes: graph[node.id] = []; in_degree[node.id] = 0
RECURSIVE InitGraph(_, _, _)
InitGraph(ns, k, g) ==
    IF k > Len(ns) THEN g
    ELSE InitGraph(ns, k + 1, DictSet(g, ns[k].id, <<>>))

RECURSIVE InitInDegree(_, _, _)
InitInDegree(ns, k, d) ==
    IF k > Len(ns) THEN d
    ELSE InitInDegree(ns, k + 1, DictSet(d, ns[k].id, 0))

RECURSIVE InitOrder(_, _, _)
InitOrder(ns, k, o) ==
    IF k > Len(ns) THEN o
    ELSE InitOrder(ns, k + 1, KeyInsert(o, ns[k].id))

\* [node_id for node_id, degree in in_degree.items() if degree == 0]
RECURSIVE ZeroDegree(_, _, _)
ZeroDegree(order, d, k) ==
    IF k > Len(order) THEN <<>>
    ELSE (IF d[order[k]] = 0 THEN <<order[k]>> ELSE <<>>)
         \o ZeroDegree(order, d, k + 1)

\* The body of "for neighbor in graph.get(node_id, [])": the in-degree map
\* and the queue after the neighbours from position k on are processed.
RECURSIVE Relax(_, _, _, _)
Relax(nbrs, k, d, q) ==
    IF k > Len(nbrs) THEN [in_degree |-> d, queue |-> q]
    ELSE LET n == nbrs[k] IN
         IF n \in DOMAIN d
         THEN LET d2 == [d EXCEPT ![n] = @ - 1] IN
              Relax(nbrs, k + 1, d2, IF d2[n] = 0 THEN Append(q, n) ELSE q)
         ELSE Relax(nbrs, k + 1, d, q)

----------------------------------------------------------------------------
Start(ns, es, active) ==
    /\ nodes = [c \in Calls |-> IF c \in active THEN ns[c] ELSE <<>>]
    /\ edges = [c \in Calls |-> IF c \in active THEN es[c] ELSE <<>>]
    /\ pc = [c \in Calls |-> IF c \in active THEN "validate" ELSE "idle"]
    /\ idx = [c \in Calls |-> 1]
    /\ graph = [c \in Calls |-> EmptyDict]
    /\ in_degree = [c \in Calls |-> EmptyDict]
    /\ in_order = [c \in Calls |-> <<>>]
    /\ queue = [c \in Calls |-> <<>>]
    /\ visited_count = [c \in Calls |-> 0]
    /\ popped = [c \in Calls |-> <<>>]
    /\ is_dag_result = [c \in Calls |-> FALSE]
    /\ outcome = [c \in Calls |-> Pending]

\* One request in flight.
Init ==
    \E ns \in SeqsUpTo(Node(Ids), MaxNodes), es \in SeqsUpTo(Edge(Ids), MaxEdges) :
        Start([c \in Calls |-> ns], [c \in Calls |-> es], {1})

Permuted(es) ==
    {[k \in 1..Len(es) |-> es[p[k]]] : p \in Permutations(1..Len(es))}

\* Two requests in flight with the same nodes; the second one's edges are a
\* permutation (possibly the identity) of the first one's.
InitPair ==
    \E ns \in SeqsUpTo(Node(PairIds), PairMaxNodes),
       es \in SeqsUpTo(Edge(PairIds), PairMaxEdges) :
        \E es2 \in Permuted(es) :
            Start([c \in Calls |-> ns], [c \in Calls |-> IF c = 1 THEN es ELSE es2],
                  Calls)

----------------------------------------------------------------------------
\* CheckEdge that forgets the target: only the source has to be known.
CheckEdgeSourceOnly(c) ==
    /\ pc[c] = "validate"
    /\ idx[c] <= Len(edges[c])
    /\ edges[c][idx[c]].source \in node_ids(c)
    /\ idx' = [idx EXCEPT ![c] = @ + 1]
    /\ UNCHANGED <<nodes, edges, pc, graph, in_degree, in_order, queue,
                   visited_count, popped, is_dag_result, outcome>>

\* for edge in request.edges: both endpoints are known, next edge.
CheckEdge(c) ==
    /\ pc[c] = "validate"
    /\ idx[c] <= Len(edges[c])
    /\ edges[c][idx[c]].source \in node_ids(c)
    /\ edges[c][idx[c]].target \in node_ids(c)
    /\ idx' = [idx EXCEPT ![c] = @ + 1]
    /\ UNCHANGED <<nodes, edges, pc, graph, in_degree, in_order, queue,
                   visited_count, popped, is_dag_result, outcome>>

\* if edge.source not in node_ids: raise HTTPException(400, ...)
RaiseSource(c) ==
    /\ pc[c] = "validate"
    /\ idx[c] <= Len(edges[c])
    /\ edges[c][idx[c]].source \notin node_ids(c)
    /\ outcome' = [outcome EXCEPT
                     ![c] = Handler(HTTPException(400, SourceDetail(edges[c][idx[c]])))]
    /\ pc' = [pc EXCEPT ![c] = "raised"]
    /\ UNCHANGED <<nodes, edges, idx, graph, in_degree, in_order, queue,
                   visited_count, popped, is_dag_result>>

\* if edge.target not in node_ids: raise HTTPException(400, ...)
RaiseTarget(c) ==
    /\ pc[c] = "validate"
    /\ idx[c] <= Len(edges[c])
    /\ edges[c][idx[c]].source \in node_ids(c)
    /\ edges[c][idx[c]].target \notin node_ids(c)
    /\ outcome' = [outcome EXCEPT
                     ![c] = Handler(HTTPException(400, TargetDetail(edges[c][idx[c]])))]
    /\ pc' = [pc EXCEPT ![c] = "raised"]
    /\ UNCHANGED <<nodes, edges, idx, graph, in_degree, in_order, queue,
                   visited_count, popped, is_dag_result>>

\* The reference check is over: is_dag(request.nodes, request.edges) is called.
CallIsDag(c) ==
    /\ pc[c] = "validate"
    /\ idx[c] > Len(edges[c])
    /\ pc' = [pc EXCEPT ![c] = "is_dag"]
    /\ UNCHANGED <<nodes, edges, idx, graph, in_degree, in_order, queue,
                   visited_count, popped, is_dag_result, outcome>>

\* if len(nodes) == 0: return True / if len(edges) == 0: return True
ShortCircuit(c) ==
    /\ pc[c] = "is_dag"
    /\ Trivial(nodes[c], edges[c])
    /\ is_dag_result' = [is_dag_result EXCEPT ![c] = TRUE]
    /\ pc' = [pc EXCEPT ![c] = "respond"]
    /\ UNCHANGED <<nodes, edges, idx, graph, in_degree, in_order, queue,
                   visited_count, popped, outcome>>

\* graph = {}; in_degree = {}; the loop that initializes all nodes.
InitNodes(c) ==
    /\ pc[c] = "is_dag"
    /\ ~Trivial(nodes[c], edges[c])
    /\ graph' = [graph EXCEPT ![c] = InitGraph(nodes[c], 1, EmptyDict)]
    /\ in_degree' = [in_degree EXCEPT ![c] = InitInDegree(nodes[c], 1, EmptyDict)]
    /\ in_order' = [in_order EXCEPT ![c] = InitOrder(nodes[c], 1, <<>>)]
    /\ idx' = [idx EXCEPT ![c] = 1]
    /\ pc' = [pc EXCEPT ![c] = "build"]
    /\ UNCHANGED <<nodes, edges, queue, visited_count, popped, is_dag_result,
                   outcome>>

\* BuildEdge over edges[:-1]: the last edge is stepped over.
BuildEdgeSkipLast(c) ==
    /\ pc[c] = "build"
    /\ idx[c] <= Len(edges[c])
    /\ LET edge == edges[c][idx[c]] IN
       IF /\ edge.source \in DOMAIN graph[c]
          /\ edge.target \in DOMAIN graph[c]
          /\ idx[c] < Len(edges[c])
       THEN /\ graph' = [graph EXCEPT
                           ![c] = DictSet(@, edge.source,
                                          Append(@[edge.source], edge.target))]
            /\ in_degree' = [in_degree EXCEPT
                               ![c] = DictSet(@, edge.target,
                                              DictGet(@, edge.target, 0) + 1)]
            /\ in_order' = [in_order EXCEPT ![c] = KeyInsert(@, edge.target)]
       ELSE UNCHANGED <<graph, in_degree, in_order>>
    /\ idx' = [idx EXCEPT ![c] = @ + 1]
    /\ UNCHANGED <<nodes, edges, pc, queue, visited_count, popped,
                   is_dag_result, outcome>>

\* BuildEdge with "in_degree[edge.target] = 1" for "+= 1".
BuildEdgeSetOne(c) ==
    /\ pc[c] = "build"
    /\ idx[c] <= Len(edges[c])
    /\ LET edge == edges[c][idx[c]] IN
       IF edge.source \in DOMAIN graph[c] /\ edge.target \in DOMAIN graph[c]
       THEN /\ graph' = [graph EXCEPT
                           ![c] = DictSet(@, edge.source,
                                          Append(@[edge.source], edge.target))]
            /\ in_degree' = [in_degree EXCEPT ![c] = DictSet(@, edge.target, 1)]
            /\ in_order' = [in_order EXCEPT ![c] = KeyInsert(@, edge.target)]
       ELSE UNCHANGED <<graph, in_degree, in_order>>
    /\ idx' = [idx EXCEPT ![c] = @ + 1]
    /\ UNCHANGED <<nodes, edges, pc, queue, visited_count, popped,
                   is_dag_result, outcome>>

\* One iteration of "for edge in edges" that builds the graph.
BuildEdge(c) ==
    /\ pc[c] = "build"
    /\ idx[c] <= Len(edges[c])
    /\ LET edge == edges[c][idx[c]] IN
       IF edge.source \in DOMAIN graph[c] /\ edge.target \in DOMAIN graph[c]
       THEN /\ graph' = [graph EXCEPT
                           ![c] = DictSet(@, edge.source,
                                          Append(@[edge.source], edge.target))]
            /\ in_degree' = [in_degree EXCEPT
                               ![c] = DictSet(@, edge.target,
                                              DictGet(@, edge.target, 0) + 1)]
            /\ in_order' = [in_order EXCEPT ![c] = KeyInsert(@, edge.target)]
       ELSE UNCHANGED <<graph, in_degree, in_order>>
    /\ idx' = [idx EXCEPT ![c] = @ + 1]
    /\ UNCHANGED <<nodes, edges, pc, queue, visited_count, popped,
                   is_dag_result, outcome>>

\* [node.id for node in nodes if in_degree[node.id] == 0]
RECURSIVE ZeroDegreeNodes(_, _, _)
ZeroDegreeNodes(ns, d, k) ==
    IF k > Len(ns) THEN <<>>
    ELSE (IF d[ns[k].id] = 0 THEN <<ns[k].id>> ELSE <<>>)
         \o ZeroDegreeNodes(ns, d, k + 1)

\* Seed that walks the node list, not the keys of in_degree.
SeedFromNodes(c) ==
    /\ pc[c] = "build"
    /\ idx[c] > Len(edges[c])
    /\ queue' = [queue EXCEPT ![c] = ZeroDegreeNodes(nodes[c], in_degree[c], 1)]
    /\ visited_count' = [visited_count EXCEPT ![c] = 0]
    /\ pc' = [pc EXCEPT ![c] = "loop"]
    /\ UNCHANGED <<nodes, edges, idx, graph, in_degree, in_order, popped,
                   is_dag_result, outcome>>

\* Seed with in_degree a module-level global that the calls share (the last
\* writer is any call that has built it).
SeedShared(c) ==
    /\ pc[c] = "build"
    /\ idx[c] > Len(edges[c])
    /\ \E w \in Calls :
          /\ DOMAIN in_degree[w] = DOMAIN in_degree[c]
          /\ queue' = [queue EXCEPT ![c] = ZeroDegree(in_order[c], in_degree[w], 1)]
    /\ visited_count' = [visited_count EXCEPT ![c] = 0]
    /\ pc' = [pc EXCEPT ![c] = "loop"]
    /\ UNCHANGED <<nodes, edges, idx, graph, in_degree, in_order, popped,
                   is_dag_result, outcome>>

\* queue = [the zero in-degree ids]; visited_count = 0
Seed(c) ==
    /\ pc[c] = "build"
    /\ idx[c] > Len(edges[c])
    /\ queue' = [queue EXCEPT ![c] = ZeroDegree(in_order[c], in_degree[c], 1)]
    /\ visited_count' = [visited_count EXCEPT ![c] = 0]
    /\ pc' = [pc EXCEPT ![c] = "loop"]
    /\ UNCHANGED <<nodes, edges, idx, graph, in_degree, in_order, popped,
                   is_dag_result, outcome>>

\* One iteration of "while queue".
LoopPop(c) ==
    /\ pc[c] = "loop"
    /\ queue[c] # <<>>
    /\ LET node_id == Head(queue[c])
           r == Relax(DictGet(graph[c], node_id, <<>>), 1, in_degree[c],
                      Tail(queue[c]))
       IN /\ in_degree' = [in_degree EXCEPT ![c] = r.in_degree]
          /\ queue' = [queue EXCEPT ![c] = r.queue]
          /\ popped' = [popped EXCEPT ![c] = Append(@, node_id)]
    /\ visited_count' = [visited_count EXCEPT ![c] = @ + 1]
    /\ UNCHANGED <<nodes, edges, pc, idx, graph, in_order, is_dag_result,
                   outcome>>

\* return visited_count <= len(nodes)
ReturnIsDagLe(c) ==
    /\ pc[c] = "loop"
    /\ queue[c] = <<>>
    /\ is_dag_result' = [is_dag_result EXCEPT
                           ![c] = (visited_count[c] <= Len(nodes[c]))]
    /\ pc' = [pc EXCEPT ![c] = "respond"]
    /\ UNCHANGED <<nodes, edges, idx, graph, in_degree, in_order, queue,
                   visited_count, popped, outcome>>

\* return visited_count == len(nodes)
ReturnIsDag(c) ==
    /\ pc[c] = "loop"
    /\ queue[c] = <<>>
    /\ is_dag_result' = [is_dag_result EXCEPT
                           ![c] = (visited_count[c] = Len(nodes[c]))]
    /\ pc' = [pc EXCEPT ![c] = "respond"]
    /\ UNCHANGED <<nodes, edges, idx, graph, in_degree, in_order, queue,
                   visited_count, popped, outcome>>

\* return {'status': 'parsed', ...}
Respond(c) ==
    /\ pc[c] = "respond"
    /\ outcome' = [outcome EXCEPT
                     ![c] = Response(nodes[c], edges[c], is_dag_result[c])]
    /\ pc' = [pc EXCEPT ![c] = "done"]
    /\ UNCHANGED <<nodes, edges, idx, graph, in_degree, in_order, queue,
                   visited_count, popped, is_dag_result>>

Step(c) ==
    \/ CheckEdge(c)
    \/ RaiseSource(c)
    \/ RaiseTarget(c)
    \/ CallIsDag(c)
    \/ ShortCircuit(c)
    \/ InitNodes(c)
    \/ BuildEdge(c)
    \/ Seed(c)
    \/ LoopPop(c)
    \/ ReturnIsDag(c)
    \/ Respond(c)

Next == \E c \in Calls : Step(c)

Spec == Init /\ [][Next]_vars

SpecPair == InitPair /\ [][Next]_vars

\* Every call takes its next step: the handler is synchronous code that
\* blocks on nothing.
SpecFair == Init /\ [][Next]_vars /\ \A c \in Calls : WF_vars(Step(c))

----------------------------------------------------------------------------
\* Graph-theoretic vocabulary of the claims, defined on the request alone.

DistinctIds(c) == Cardinality(node_ids(c)) = Len(nodes[c])

RefValid(c, k) ==
    edges[c][k].source \in node_ids(c) /\ edges[c][k].target \in node_ids(c)

AllRefsValid(c) == \A k \in 1..Len(edges[c]) : RefValid(c, k)

\* A directed path of at least one and at most n edges from a to b.
RECURSIVE Path(_, _, _, _)
Path(es, a, b, n) ==
    /\ n > 0
    /\ \E e \in es :
          /\ e.source = a
          /\ e.target = b \/ Path(es, e.target, b, n - 1)

HasCycle(c) ==
    \E a \in node_ids(c) : Path(Range(edges[c]), a, a, Cardinality(node_ids(c)))

NoDup(s) == \A p, q \in 1..Len(s) : s[p] = s[q] => p = q

\* Position of the first node that declares id.
FirstIndex(ns, id) ==
    CHOOSE k \in 1..Len(ns) : ns[k].id = id /\ \A j \in 1..(k - 1) : ns[j].id # id

\* Number of edges into id, and of those whose source is not in the set done.
Incoming(c, id, done) ==
    Cardinality({k \in 1..Len(edges[c]) :
                    edges[c][k].target = id /\ edges[c][k].source \notin done})

RECURSIVE SumOver(_, _)
SumOver(d, S) ==
    IF S = {} THEN 0
    ELSE LET x == CHOOSE y \in S : TRUE IN d[x] + SumOver(d, S \ {x})

Finished(c) == pc[c] \in {"done", "raised"}

InIsDag(c) == pc[c] \in {"is_dag", "build", "loop"}

\* The call went through Kahn's algorithm (not the early return).
RanKahn(c) == pc[c] \in {"respond", "done"} /\ ~Trivial(nodes[c], edges[c])

E(a, b) == [source |-> a, target |-> b]
N(a) == [id |-> a]

----------------------------------------------------------------------------
\* C1: with pairwise distinct node ids and all edges referencing existing
\* nodes, the response has is_dag = true iff the graph has no directed cycle.
C1_DagIffAcyclic ==
    \A c \in Calls :
        (pc[c] = "done" /\ DistinctIds(c) /\ AllRefsValid(c))
            => (outcome[c].body.is_dag <=> ~HasCycle(c))

\* The two-node cycle A->B, B->A answered with is_dag = false.
C1_Witness ==
    \E c \in Calls :
        /\ pc[c] = "done"
        /\ nodes[c] = <<N("A"), N("B")>>
        /\ edges[c] = <<E("A", "B"), E("B", "A")>>
        /\ outcome[c].body.is_dag = FALSE

\* Position of the first edge with a missing endpoint.
FirstInvalid(c) ==
    CHOOSE k \in 1..Len(edges[c]) :
        ~RefValid(c, k) /\ \A j \in 1..(k - 1) : RefValid(c, j)

\* C2: when some edge has a missing endpoint, the call ends with the 400 of
\* the first such edge, naming its source if that is missing and its target
\* otherwise; no edge after it is examined and the error is never a 500.
C2_FirstInvalidEdge400 ==
    \A c \in Calls :
        (pc[c] # "idle" /\ ~AllRefsValid(c)) =>
            LET f == FirstInvalid(c) e == edges[c][f] IN
            /\ pc[c] \in {"validate", "raised"}
            /\ idx[c] <= f
            /\ pc[c] = "validate" => ENABLED Step(c)
            /\ pc[c] = "raised" =>
                  /\ idx[c] = f
                  /\ outcome[c] =
                        IF e.source \notin node_ids(c)
                        THEN HTTPException(400, SourceDetail(e))
                        ELSE HTTPException(400, TargetDetail(e))

\* A second edge whose source and target are both missing, after a valid one.
C2_Witness ==
    \E c \in Calls :
        /\ pc[c] = "raised"
        /\ nodes[c] = <<N("A")>>
        /\ edges[c] = <<E("A", "A"), E("B", "C")>>
        /\ outcome[c].status_code = 400
        /\ outcome[c].detail = "Edge references non-existent source node: B"

\* C3: a response is produced iff every edge endpoint is a submitted node
\* (a call ends only by returning or raising); with a missing endpoint
\* is_dag is never entered and nothing is returned.
C3_SuccessIffAllRefsValid ==
    \A c \in Calls :
        /\ pc[c] = "done" => (AllRefsValid(c) /\ outcome[c].kind = "response")
        /\ (pc[c] # "idle" /\ ~Finished(c)) => ENABLED Step(c)
        /\ pc[c] = "raised" => (~AllRefsValid(c) /\ outcome[c].kind = "HTTPException")
        /\ (pc[c] # "idle" /\ ~AllRefsValid(c)) =>
              /\ pc[c] \in {"validate", "raised"}
              /\ outcome[c].kind # "response"
              /\ graph[c] = EmptyDict /\ in_degree[c] = EmptyDict
              /\ queue[c] = <<>> /\ visited_count[c] = 0

\* A call that failed on a missing target.
C3_Witness ==
    \E c \in Calls :
        /\ pc[c] = "raised"
        /\ nodes[c] = <<N("A"), N("B")>>
        /\ edges[c] = <<E("A", "B"), E("B", "C")>>
        /\ outcome[c].kind = "HTTPException"

\* C4: when the worklist is empty, visited count = node count means acyclic
\* and is_dag = true, visited count < node count means a cycle exists and
\* is_dag = false, duplicate node ids included.
C4_VisitedCountDecidesCycle ==
    \A c \in Calls :
        RanKahn(c) =>
            /\ visited_count[c] = Len(nodes[c]) => (~HasCycle(c) /\ is_dag_result[c])
            /\ visited_count[c] < Len(nodes[c]) => (HasCycle(c) /\ ~is_dag_result[c])

\* C5: two edge lists that are permutations of each other, on the same
\* nodes, get the same is_dag verdict.
C5_EdgeOrderIndependent ==
    \A c, d \in Calls :
        (pc[c] = "done" /\ pc[d] = "done" /\ nodes[c] = nodes[d]
            /\ edges[d] \in Permuted(edges[c]))
            => outcome[c].body.is_dag = outcome[d].body.is_dag

\* Both calls answered, on edge lists in different order that go through Kahn.
C5_Witness ==
    /\ pc[1] = "done" /\ pc[2] = "done"
    /\ nodes[1] = <<N("A"), N("B")>>
    /\ edges[1] = <<E("A", "A"), E("A", "B")>>
    /\ edges[2] = <<E("A", "B"), E("A", "A")>>
    /\ outcome[1].body.is_dag = FALSE

\* C6: with zero edges, or zero nodes, is_dag is true and comes from the
\* early return: adjacency and in-degree mappings are never built.
C6_TrivialIsDag ==
    \A c \in Calls :
        (pc[c] \in {"respond", "done"} /\ (Len(edges[c]) = 0 \/ Len(nodes[c]) = 0))
            => /\ is_dag_result[c]
               /\ pc[c] = "done" => outcome[c].body.is_dag
               /\ graph[c] = EmptyDict /\ in_degree[c] = EmptyDict
               /\ in_order[c] = <<>> /\ queue[c] = <<>> /\ popped[c] = <<>>

\* Duplicate identifiers and no edge.
C6_Witness ==
    \E c \in Calls :
        /\ pc[c] = "done"
        /\ nodes[c] = <<N("A"), N("A")>>
        /\ edges[c] = <<>>
        /\ outcome[c].body.is_dag

\* C7: a response has status 'parsed', nodes_count and edges_count the
\* lengths of the submitted lists, and echoes nodes and edges in order.
C7_ResponseCountsAndEcho ==
    \A c \in Calls :
        pc[c] = "done" =>
            LET b == outcome[c].body IN
            /\ outcome[c].kind = "response"
            /\ b.status = "parsed"
            /\ b.nodes_count = Len(nodes[c])
            /\ b.edges_count = Len(edges[c])
            /\ Len(b.nodes) = Len(nodes[c])
            /\ \A k \in 1..Len(nodes[c]) : b.nodes[k].id = nodes[c][k].id
            /\ Len(b.edges) = Len(edges[c])
            /\ \A k \in 1..Len(edges[c]) :
                  /\ b.edges[k].source = edges[c][k].source
                  /\ b.edges[k].target = edges[c][k].target

\* The chain A->B, B->C: 3 nodes, 2 edges, a DAG.
C7_Witness ==
    \E c \in Calls :
        /\ pc[c] = "done"
        /\ nodes[c] = <<N("A"), N("B"), N("C")>>
        /\ edges[c] = <<E("A", "B"), E("B", "C")>>
        /\ outcome[c].body.nodes_count = 3
        /\ outcome[c].body.edges_count = 2
        /\ outcome[c].body.is_dag

SameOutcome ==
    \A c, d \in Calls :
        (Finished(c) /\ Finished(d) /\ nodes[c] = nodes[d] /\ edges[c] = edges[d])
            => outcome[c] = outcome[d]

RequestKept == nodes' = nodes /\ edges' = edges

\* C8: two calls with identical node and edge lists end with identical
\* outcomes under every interleaving, and no step changes a request.
C8_Deterministic == []SameOutcome /\ [][RequestKept]_vars

\* Two finished calls on the same cyclic request, each through Kahn.
C8_Witness ==
    /\ pc[1] = "done" /\ pc[2] = "done"
    /\ nodes[1] = <<N("A"), N("B")>>
    /\ edges[1] = <<E("A", "B"), E("B", "B")>>
    /\ edges[2] = edges[1]
    /\ outcome[1] = outcome[2]

\* The ids that were ever put on the worklist: it is first in, first out.
Appended(c) == popped[c] \o queue[c]

LoopBounded ==
    \A c \in Calls :
        /\ NoDup(Appended(c))
        /\ NoDup(popped[c])
        /\ visited_count[c] = Len(popped[c])
        /\ visited_count[c] <= Cardinality(node_ids(c))
        /\ (InIsDag(c) /\ pc[c] # "is_dag") \/ RanKahn(c) =>
              /\ DOMAIN graph[c] = node_ids(c)
              /\ DOMAIN in_degree[c] = node_ids(c)
              /\ Range(in_order[c]) = node_ids(c)
              /\ NoDup(in_order[c])

LoopEnds == \A c \in Calls : (pc[c] = "loop") ~> (pc[c] = "respond")

\* C9: the worklist loop terminates; every id is appended at most once and
\* removed at most once, visited_count never exceeds the number of distinct
\* ids, and the two mappings have one entry per distinct id.
C9_LoopTerminates == []LoopBounded /\ LoopEnds

\* The loop has ended on a cyclic request with a duplicated id.
C9_Witness ==
    \E c \in Calls :
        /\ pc[c] = "respond"
        /\ nodes[c] = <<N("A"), N("B"), N("A")>>
        /\ edges[c] = <<E("A", "B"), E("B", "B")>>
        /\ popped[c] = <<"A">>
        /\ visited_count[c] = 1

\* C10: every edge passes the guard of the build loop, the in-degrees sum
\* to the number of edges after it, no in-degree goes negative in the
\* worklist loop, an in-degree is the number of incoming edges from sources
\* not yet visited, and the first worklist is the zero in-degree ids in
\* node declaration order.
C10_InDegreeInvariants ==
    \A c \in Calls :
        /\ pc[c] = "build" =>
              /\ \A k \in 1..Len(edges[c]) :
                    /\ edges[c][k].source \in DOMAIN graph[c]
                    /\ edges[c][k].target \in DOMAIN graph[c]
              /\ SumOver(in_degree[c], DOMAIN in_degree[c]) = idx[c] - 1
        /\ (pc[c] = "loop" /\ visited_count[c] = 0) =>
              /\ SumOver(in_degree[c], DOMAIN in_degree[c]) = Len(edges[c])
              /\ NoDup(queue[c])
              /\ Range(queue[c]) = {id \in node_ids(c) : Incoming(c, id, {}) = 0}
              /\ \A p, q \in 1..Len(queue[c]) :
                    p < q => FirstIndex(nodes[c], queue[c][p])
                                < FirstIndex(nodes[c], queue[c][q])
        /\ (pc[c] = "loop" \/ RanKahn(c)) =>
              \A id \in DOMAIN in_degree[c] :
                  /\ in_degree[c][id] >= 0
                  /\ in_degree[c][id] = Incoming(c, id, Range(popped[c]))

\* Two edges into B, one of them visited: B's in-degree is down to 1.
C10_Witness ==
    \E c \in Calls :
        /\ pc[c] = "loop"
        /\ nodes[c] = <<N("C"), N("A"), N("B")>>
        /\ edges[c] = <<E("A", "B"), E("C", "B")>>
        /\ popped[c] = <<"C">>
        /\ queue[c] = <<"A">>
        /\ in_degree[c]["B"] = 1

====
